---- MODULE Spec2Model ----
(***************************************************************************)
(* DUCK (src/duck/core.py, src/duck/models.py): the paginated fetchers of  *)
(* a user's public events and pull requests, the record validation, the    *)
(* date-window classifiers and the orchestration functions built on them.  *)
(*                                                                         *)
(* One behaviour of Spec is one call of one function of core.py.  The      *)
(* server is the environment: every page request is answered by a response *)
(* drawn from a bounded set.  Calendar days are integers, instants are     *)
(* hours since day 0 as shown by the wall clock of their own UTC offset.   *)
(***************************************************************************)
EXTENDS Integers, Sequences, FiniteSets, TLC

\* ------------------------------------------------------------------ bounds
\* The largest page budget (max_pages) a call is given.
MaxPages == 2
\* The most items one response page carries.
MaxItems == 2
\* The largest total_count a search response reports.
MaxTotal == 3
\* The longest list handed directly to a classifier (SpecClassify).
MaxLen == 2

BoundedSeq(S, n) == UNION {[1..k -> S] : k \in 0..n}

\* ------------------------------------------------------------- JSON values
\* A decoded JSON value: t is its type, s its text (strings), a and b its
\* numbers.  A timestamp string is a string whose text names its ISO-8601
\* form; a is the wall-clock hour it shows, b the UTC offset it shows (hours).
JAbsent == [t |-> "absent", s |-> "", a |-> 0, b |-> 0]
JNull == [t |-> "null", s |-> "", a |-> 0, b |-> 0]
JStr(text) == [t |-> "str", s |-> text, a |-> 0, b |-> 0]
JInt(n) == [t |-> "int", s |-> "", a |-> n, b |-> 0]
JBool(x) == [t |-> "bool", s |-> "", a |-> IF x THEN 1 ELSE 0, b |-> 0]
JTime(form, hour, offset) == [t |-> "str", s |-> form, a |-> hour, b |-> offset]

\* The string forms datetime.fromisoformat accepts once "Z" is replaced.
IsoForms == {"iso_z", "iso_offset", "iso_naive"}

\* ------------------------------------------------------------- models.py
\* A timezone-aware datetime: lt is the wall-clock hour, off its UTC offset.
NoDatetime == [ok |-> FALSE, lt |-> 0, off |-> 0]

\* GitHubEvent.parse_created_at / PullRequestSimple.parse_datetime_fields on a
\* JSON value: "Z" becomes +00:00, an explicit offset is kept as it is (the
\* instant is not converted), a naive value is labelled UTC; anything else is
\* a ValueError, and None fails the later datetime validation of a required
\* field.
parse_datetime(value) ==
    IF value.t = "str" /\ value.s \in IsoForms
    THEN [ok |-> TRUE, lt |-> value.a,
          off |-> IF value.s = "iso_offset" THEN value.b ELSE 0]
    ELSE NoDatetime

\* datetime.date(): the calendar day the datetime shows in its own offset.
date(dt) == dt.lt \div 24

\* A str field in pydantic's lax mode takes a string only.
is_str(value) == value.t = "str"
\* An int field takes an integer (the strings of this model are not numeric).
is_int(value) == value.t = "int"
\* A bool field takes a boolean, or the integers 0 and 1.
is_bool(value) == value.t = "bool" \/ (value.t = "int" /\ value.a \in {0, 1})

\* GitHubEvent(**event_item) succeeds: the item is a mapping and the three
\* required fields validate (actor and payload are optional, extra ignored).
GitHubEvent_valid(item) ==
    /\ item.shape = "mapping"
    /\ is_str(item.id)
    /\ is_str(item.type)
    /\ parse_datetime(item.created_at).ok

\* The record GitHubEvent(**event_item) builds.
GitHubEvent(item) ==
    [id |-> item.id.s, type |-> item.type.s,
     created_at |-> parse_datetime(item.created_at)]

\* Mutant of PullRequestSimple_valid: locked is optional.
PullRequestSimple_valid_locked_optional(item) ==
    /\ item.shape = "mapping"
    /\ is_int(item.id)
    /\ is_str(item.html_url)
    /\ is_int(item.number)
    /\ is_str(item.title)
    /\ is_str(item.state)
    /\ item.locked.t = "absent" \/ is_bool(item.locked)
    /\ parse_datetime(item.created_at).ok
    /\ parse_datetime(item.updated_at).ok

\* PullRequestSimple(**pr_item_data) succeeds: the eight required fields.
PullRequestSimple_valid(item) ==
    /\ item.shape = "mapping"
    /\ is_int(item.id)
    /\ is_str(item.html_url)
    /\ is_int(item.number)
    /\ is_str(item.title)
    /\ is_str(item.state)
    /\ is_bool(item.locked)
    /\ parse_datetime(item.created_at).ok
    /\ parse_datetime(item.updated_at).ok

\* The record PullRequestSimple(**pr_item_data) builds (the fields core.py reads).
PullRequestSimple(item) ==
    [id |-> item.id.a, number |-> item.number.a, title |-> item.title.s,
     created_at |-> parse_datetime(item.created_at),
     updated_at |-> parse_datetime(item.updated_at)]

\* --------------------------------------------------- the server's answers
\* Python's None and a list, as one kind of value.
None_ == [tag |-> "none", val |-> <<>>]
List(v) == [tag |-> "list", val |-> v]
\* What a call that let an exception escape hands back.
Raised == [tag |-> "raised", val |-> <<>>]
\* Before the fetch has returned.
Pending == [tag |-> "pending", val |-> <<>>]

\* A url: its path and query, and the page cursor it carries (0: none).
Url(path, cursor) == [path |-> path, cursor |-> cursor]
\* No url: the None of links.get("next", {}).get("url").
NoUrl == Url("None", 0)

\* Event items a public-events page may carry (day 3 is hours 72..95).
ev_push_today ==
    [shape |-> "mapping", id |-> JStr("e1"), type |-> JStr("PushEvent"),
     created_at |-> JTime("iso_z", 82, 0)]
ev_watch_today ==
    [shape |-> "mapping", id |-> JStr("e2"), type |-> JStr("WatchEvent"),
     created_at |-> JTime("iso_z", 83, 0)]
ev_no_type ==
    [shape |-> "mapping", id |-> JStr("e3"), type |-> JAbsent,
     created_at |-> JTime("iso_z", 82, 0)]
EventItems == {ev_push_today, ev_watch_today, ev_no_type}
\* A push of day 2, served on a page of its own.
ev_push_yesterday ==
    [shape |-> "mapping", id |-> JStr("e4"), type |-> JStr("PushEvent"),
     created_at |-> JTime("iso_z", 58, 0)]
\* An item that is not a mapping (a number, a string, null): GitHubEvent(**item)
\* raises TypeError.
ev_not_a_mapping ==
    [shape |-> "scalar", id |-> JAbsent, type |-> JAbsent, created_at |-> JAbsent]

\* Pull-request items a search page may carry.  pr_no_locked has the shape of
\* the item of tests/test_core.py (sample_pr_search_api_item_dict).
pr_updated_today ==
    [shape |-> "mapping", id |-> JInt(101), html_url |-> JStr("url1"),
     number |-> JInt(11), title |-> JStr("t1"), state |-> JStr("open"),
     locked |-> JBool(FALSE),
     created_at |-> JTime("iso_z", 9, 0), updated_at |-> JTime("iso_z", 82, 0)]
pr_created_yesterday ==
    [shape |-> "mapping", id |-> JInt(102), html_url |-> JStr("url2"),
     number |-> JInt(12), title |-> JStr("t2"), state |-> JStr("closed"),
     locked |-> JBool(FALSE),
     created_at |-> JTime("iso_z", 58, 0), updated_at |-> JTime("iso_offset", 99, 9)]
pr_no_locked ==
    [shape |-> "mapping", id |-> JInt(1), html_url |-> JStr("url3"),
     number |-> JInt(1347), title |-> JStr("t3"), state |-> JStr("open"),
     locked |-> JAbsent,
     created_at |-> JTime("iso_offset", 82, 0), updated_at |-> JTime("iso_offset", 82, 0)]
PrItems == {pr_updated_today, pr_created_yesterday, pr_no_locked}
pr_not_a_mapping ==
    [shape |-> "scalar", id |-> JAbsent, html_url |-> JAbsent, number |-> JAbsent,
     title |-> JAbsent, state |-> JAbsent, locked |-> JAbsent,
     created_at |-> JAbsent, updated_at |-> JAbsent]

\* A response to one GET.  kind: what requests.get / raise_for_status / json()
\* did; body: the type of the decoded JSON; items_kind: the "items" member of a
\* mapping; link: the url of the Link header's rel="next".
Response(kind, status, body, items_kind, items, link, total) ==
    [kind |-> kind, status |-> status, body |-> body, items_kind |-> items_kind,
     items |-> items, link |-> link, total_count |-> total]

NoResponse == Response("none", 0, "none", "absent", <<>>, NoUrl, JAbsent)

ErrorStatuses == {401, 403, 404, 500}

\* The responses that never reach the parsing: HTTP 4xx/5xx, a timeout, a
\* connection error, a body that is not JSON.
FailedResponses ==
    {Response("http_error", st, "none", "absent", <<>>, NoUrl, JAbsent) : st \in ErrorStatuses}
    \cup {Response(k, 0, "none", "absent", <<>>, NoUrl, JAbsent) : k \in {"timeout", "connection_error"}}
    \cup {Response("bad_json", 200, "none", "absent", <<>>, NoUrl, JAbsent)}

\* The next link of an answer: none, or the url of a further page.
EventLinks == {NoUrl, Url("user/{id}/events/public?per_page=100&page", 0)}

\* The answers to a request of the events fetcher.
EventResponses ==
    FailedResponses
    \cup {Response("ok", 200, b, "absent", <<>>, l, JAbsent) :
            b \in {"mapping", "null"}, l \in EventLinks}
    \cup {Response("ok", 200, "list", "absent", <<it>>, l, JAbsent) :
            it \in {ev_not_a_mapping, ev_push_yesterday}, l \in EventLinks}
    \cup {Response("ok", 200, "list", "absent", its, l, JAbsent) :
            its \in BoundedSeq(EventItems, MaxItems), l \in EventLinks}

PrLinks == {NoUrl, Url("search/issues?page", 0)}

\* total_count: missing or a number (small, or MaxTotal); or a JSON value that
\* is not a number: null, a string.
TotalCounts == {JAbsent} \cup {JInt(n) : n \in {0, 1, 2, MaxTotal}}
NonNumericTotalCounts == {JNull, JStr("1")}

\* The answers to a request of the PR fetcher.
PrResponses ==
    FailedResponses
    \cup {Response("ok", 200, b, "absent", <<>>, NoUrl, JAbsent) : b \in {"list", "null"}}
    \cup {Response("ok", 200, "mapping", "list", <<pr_not_a_mapping>>, l, JInt(1)) :
            l \in PrLinks}
    \cup {Response("ok", 200, "mapping", kind, <<>>, l, JInt(1)) :
            kind \in {"absent", "other"}, l \in PrLinks}
    \cup {Response("ok", 200, "mapping", "list", its, l, tc) :
            its \in BoundedSeq(PrItems, MaxItems), l \in PrLinks, tc \in TotalCounts}
    \cup {Response("ok", 200, "mapping", "list", its, l, tc) :
            its \in {<<>>, <<pr_updated_today>>}, l \in PrLinks,
            tc \in NonNumericTotalCounts}

\* ---------------------------------------------------------------- core.py
\* Mutant of _parse_events_from_response: the first invalid item ends the loop.
RECURSIVE parse_events_until_invalid(_)
parse_events_until_invalid(events_data) ==
    IF events_data = <<>> THEN <<>>
    ELSE IF GitHubEvent_valid(Head(events_data))
         THEN <<GitHubEvent(Head(events_data))>> \o parse_events_until_invalid(Tail(events_data))
         ELSE <<>>

\* _parse_events_from_response: the items that validate, in order; an item
\* that raises ValidationError or TypeError is skipped.
RECURSIVE _parse_events_from_response(_)
_parse_events_from_response(events_data) ==
    IF events_data = <<>> THEN <<>>
    ELSE LET event_item == Head(events_data)
             parsed_rest == _parse_events_from_response(Tail(events_data))
         IN  IF GitHubEvent_valid(event_item)
             THEN <<GitHubEvent(event_item)>> \o parsed_rest
             ELSE parsed_rest

\* Mutant of _fetch_single_events_page: a page without items has no next url.
_fetch_single_events_page_empty_ends(resp) ==
    IF resp.kind # "ok" THEN [page_events |-> None_, next_page_url |-> NoUrl]
    ELSE IF resp.body # "list" THEN [page_events |-> None_, next_page_url |-> NoUrl]
    ELSE [page_events |-> List(_parse_events_from_response(resp.items)),
          next_page_url |-> IF resp.items = <<>> THEN NoUrl ELSE resp.link]

\* Mutant of _fetch_single_events_page: a next link is not read, the url of
\* the first page is handed back in its place.
_fetch_single_events_page_first_url(resp) ==
    IF resp.kind # "ok" THEN [page_events |-> None_, next_page_url |-> NoUrl]
    ELSE IF resp.body # "list" THEN [page_events |-> None_, next_page_url |-> NoUrl]
    ELSE [page_events |-> List(_parse_events_from_response(resp.items)),
          next_page_url |-> IF resp.link = NoUrl THEN NoUrl
                            ELSE Url("users/{username}/events/public?per_page=100", 0)]

\* _fetch_single_events_page: (page_events, next_page_url) of one response.
_fetch_single_events_page(resp) ==
    IF resp.kind # "ok" THEN [page_events |-> None_, next_page_url |-> NoUrl]
    ELSE IF resp.body # "list" THEN [page_events |-> None_, next_page_url |-> NoUrl]
    ELSE [page_events |-> List(_parse_events_from_response(resp.items)),
          next_page_url |-> resp.link]

\* _parse_prs_from_items: as _parse_events_from_response, for PR items.
RECURSIVE _parse_prs_from_items(_)
_parse_prs_from_items(pr_items_data) ==
    IF pr_items_data = <<>> THEN <<>>
    ELSE LET pr_item_data == Head(pr_items_data)
             parsed_rest == _parse_prs_from_items(Tail(pr_items_data))
         IN  IF PullRequestSimple_valid(pr_item_data)
             THEN <<PullRequestSimple(pr_item_data)>> \o parsed_rest
             ELSE parsed_rest

\* The (None, False, 0) of _fetch_single_prs_page.
prs_page_failed == [page_prs |-> None_, has_more |-> FALSE, total_count |-> JInt(0)]

\* Mutant of has_more_github_side: the items alone decide.
has_more_items_only(resp) == resp.items # <<>>

\* Mutant of has_more_github_side: the page counts as empty when no item of
\* it validates.
has_more_parsed_items(resp) ==
    resp.link # NoUrl /\ _parse_prs_from_items(resp.items) # <<>>

\* Mutant of has_more_github_side: the Link header alone decides.
has_more_link_only(resp) == resp.link # NoUrl

\* has_more_github_side: the Link header has a next url, and the page has items.
has_more_github_side(resp) == resp.link # NoUrl /\ resp.items # <<>>

\* Mutant of _fetch_single_prs_page: an "items" that is not a list reads as
\* an empty page.
_fetch_single_prs_page_items_any(resp) ==
    IF resp.kind # "ok" THEN prs_page_failed
    ELSE IF resp.body # "mapping" \/ resp.items_kind = "absent" THEN prs_page_failed
    ELSE [page_prs |-> List(_parse_prs_from_items(resp.items)),
          has_more |-> has_more_github_side(resp),
          total_count |-> IF resp.total_count.t = "absent" THEN JInt(0)
                          ELSE resp.total_count]

\* Mutant of _fetch_single_prs_page: a page without items is a failure.
_fetch_single_prs_page_empty_fails(resp) ==
    IF resp.kind # "ok" THEN prs_page_failed
    ELSE IF resp.body # "mapping" \/ resp.items_kind = "absent" THEN prs_page_failed
    ELSE IF resp.items_kind # "list" \/ resp.items = <<>> THEN prs_page_failed
    ELSE [page_prs |-> List(_parse_prs_from_items(resp.items)),
          has_more |-> has_more_github_side(resp),
          total_count |-> IF resp.total_count.t = "absent" THEN JInt(0)
                          ELSE resp.total_count]

\* _fetch_single_prs_page: (page_prs, has_more, total_count) of one response.
\* total_count is search_results.get("total_count", 0): whatever JSON value
\* the body carries, 0 when it carries none.
_fetch_single_prs_page(resp) ==
    IF resp.kind # "ok" THEN prs_page_failed
    ELSE IF resp.body # "mapping" \/ resp.items_kind = "absent" THEN prs_page_failed
    ELSE IF resp.items_kind # "list" THEN prs_page_failed
    ELSE [page_prs |-> List(_parse_prs_from_items(resp.items)),
          has_more |-> has_more_github_side(resp),
          total_count |-> IF resp.total_count.t = "absent" THEN JInt(0)
                          ELSE resp.total_count]

\* total_count > 0 and len(all_pull_requests) >= total_count raises TypeError
\* when total_count is None or a string.
comparable_with_int(value) == value.t = "int"

\* Mutant of fetched_all_reported: the total must be exceeded, not reached.
fetched_more_than_reported(count, n_fetched) == count.a > 0 /\ n_fetched > count.a

\* The additional check of fetch_user_pull_requests: all reported items fetched.
fetched_all_reported(count, n_fetched) == count.a > 0 /\ n_fetched >= count.a

\* Mutant of falsy: only None is tested (`x is None`).
falsy_none_only(x) == x.tag = "none"

\* `not x` for x a list or None.
falsy(x) == x.tag = "none" \/ x.val = <<>>

\* Mutant of not_str: no string is falsy.
not_str_never(x) == FALSE

\* `not x` for x a string: `if not username`.
not_str(x) == x = ""

\* The loop of find_push_events_in_date_range over events[i..].
RECURSIVE push_event_in_range_from(_, _, _, _)
push_event_in_range_from(events, i, start, end) ==
    IF i > Len(events) THEN FALSE
    ELSE LET event == events[i]
             event_date == date(event.created_at)
         IN  IF event.type = "PushEvent" /\ start <= event_date /\ event_date <= end
             THEN TRUE
             ELSE push_event_in_range_from(events, i + 1, start, end)

find_push_events_in_date_range(events, start, end) ==
    IF falsy(events) THEN FALSE
    ELSE push_event_in_range_from(events.val, 1, start, end)

find_todays_push_events(events, today_utc_date) ==
    find_push_events_in_date_range(events, today_utc_date, today_utc_date)

\* Mutant of pr_active_in_range: only the created date is tested.
pr_active_created_only(pr, start, end) ==
    start <= date(pr.created_at) /\ date(pr.created_at) <= end

\* The test of one PR in the loop of find_prs_last_days.
pr_active_in_range(pr, start, end) ==
    LET pr_created_date == date(pr.created_at)
        pr_updated_date == date(pr.updated_at)
    IN  \/ (start <= pr_created_date /\ pr_created_date <= end)
        \/ (start <= pr_updated_date /\ pr_updated_date <= end)

\* The loop of find_prs_last_days over prs[i..].
RECURSIVE pr_in_range_from(_, _, _, _)
pr_in_range_from(prs, i, start, end) ==
    IF i > Len(prs) THEN FALSE
    ELSE IF pr_active_in_range(prs[i], start, end) THEN TRUE
    ELSE pr_in_range_from(prs, i + 1, start, end)

\* ------------------------------------------------------------- the state
VARIABLES
    fn,                         \* the function of core.py that was called
    username, max_pages, days,  \* its arguments
    token,                      \* its token argument ("None": no token)
    today_utc,                  \* datetime.now(timezone.utc).date()
    start_date, end_date,       \* the date window of the check
    pc,                         \* where the call is
    next_url, all_events,       \* locals of fetch_github_user_public_events
    has_more_pages, current_page_num_for_api,
    all_pull_requests, total_count,  \* locals of fetch_user_pull_requests
    pages_fetched,              \* local of both fetchers
    requests,                   \* the GETs issued so far, in order
    response,                   \* the answer to the latest GET
    fetched,                    \* what the fetcher returned (user_events, prs)
    classifier_ran,             \* the date-window loop was entered
    ret,                        \* what the orchestration function returned
    argv, environ, config,      \* cli.py: the command line, os.environ, load_config()
    args,                       \* parse_args(), its budgets then set by main
    github_user, github_token,  \* locals of main
    commits_found_today, prs_found_today,  \* locals of handle_check
    calls,                      \* the calls of the two checks, in order
    exit_code,                  \* <<n>> once main has returned n
    thread,                     \* the thread that runs (the variables above
                                \* hold the call it is making)
    suspended,                  \* the call of the thread that does not run
    received,                   \* the answers the running call got, in order
    get_order,                  \* the threads, in the order of all GETs issued
    item_data,                  \* models.py: the mapping a record is built from
    dumped                      \* the fields of the record built from it

\* The state of cli.py, and of core.py.
cli_vars == <<argv, args, environ, config, github_user, github_token,
              commits_found_today, prs_found_today, calls, exit_code>>
thread_vars == <<thread, suspended, received, get_order>>
record_vars == <<item_data, dumped>>
core_vars == <<fn, username, token, max_pages, days, today_utc, start_date, end_date,
               next_url, all_events, has_more_pages, current_page_num_for_api,
               all_pull_requests, total_count, pages_fetched, requests, response,
               fetched, classifier_ran, ret, thread_vars, record_vars>>

vars == <<fn, username, token, max_pages, days, today_utc, start_date, end_date, pc,
          next_url, all_events, has_more_pages, current_page_num_for_api,
          all_pull_requests, total_count, pages_fetched, requests, response,
          fetched, classifier_ran, ret, cli_vars, thread_vars, record_vars>>

call_args == <<fn, username, token, max_pages, days, today_utc, start_date, end_date>>
events_locals == <<next_url, all_events>>
prs_locals == <<has_more_pages, current_page_num_for_api, all_pull_requests, total_count>>

EventsFunctions == {"fetch_github_user_public_events", "find_todays_commits",
                    "find_commits_last_days"}
PrsFunctions == {"fetch_user_pull_requests", "find_todays_prs", "find_prs_last_days"}
Orchestrations == {"find_todays_commits", "find_commits_last_days",
                   "find_todays_prs", "find_prs_last_days"}
LastDaysFunctions == {"find_commits_last_days", "find_prs_last_days"}

Usernames == {"", "octocat"}
\* The token a call is given: the fetchers with and without one, the
\* orchestration functions with the default of their signature (token=None).
Tokens == {"None", "ghp_token"}
\* The page budgets a call is given: none left (0 or below), up to MaxPages.
PageBudgets == -1..MaxPages
Days == {0, 1, 2}
Todays == {3}

\* The answer as served to the k-th request of a call: its next link, if
\* any, is the url of page k + 1, so that each page has a url of its own.
served(resp, k) ==
    IF resp.link = NoUrl THEN resp
    ELSE [resp EXCEPT !.link = Url(resp.link.path, k + 1)]

EventsUrl == Url("users/{username}/events/public?per_page=100", 0)
SearchUrl == Url("search/issues", 0)

\* headers: the Authorization header is set `if token`.
headers == IF token = "None" THEN <<>> ELSE <<"Bearer", token>>

\* search_query_type: find_prs_last_days passes "involves", the default is "author".
search_query_type == IF fn = "fetch_user_pull_requests" THEN "author" ELSE "involves"

BoolStr(b) == IF b THEN "True" ELSE "False"

\* A function of core.py is called directly: cli.py is not running.
cli_idle ==
    /\ argv = [user |-> JNull, token |-> JNull,
               max_event_pages |-> JNull, max_pr_pages |-> JNull]
    /\ args = argv
    /\ environ = [GITHUB_USERNAME |-> JNull, GITHUB_TOKEN |-> JNull,
                  DUCK_MAX_EVENT_PAGES |-> JNull, DUCK_MAX_PR_PAGES |-> JNull]
    /\ config = [github |-> [username |-> JNull, token |-> JNull,
                             max_event_pages |-> JNull, max_pr_pages |-> JNull],
                 max_event_pages |-> JNull, max_pr_pages |-> JNull]
    /\ github_user = JNull
    /\ github_token = JNull
    /\ commits_found_today = "pending"
    /\ prs_found_today = "pending"
    /\ calls = <<>>
    /\ exit_code = <<>>

\* No record is built on its own: models.py is used through core.py only.
NoItem == [shape |-> "none"]
no_record ==
    /\ item_data = NoItem
    /\ dumped = NoItem

\* One call runs, on one thread: there is no other call.
NoFrame == [fn |-> "none"]
one_thread ==
    /\ thread = 1
    /\ suspended = NoFrame
    /\ received = <<>>
    /\ get_order = <<>>

\* A step of a call of core.py that runs alone: cli.py is not running, nor is
\* another thread.
alone == UNCHANGED <<cli_vars, thread_vars, record_vars>>

\* The state a call starts in.
StartOfCall ==
    /\ pc = IF fn \in EventsFunctions THEN "fetch_events" ELSE "fetch_prs"
    /\ next_url = EventsUrl
    /\ all_events = <<>>
    /\ has_more_pages = TRUE
    /\ current_page_num_for_api = 1
    /\ all_pull_requests = <<>>
    /\ total_count = JAbsent
    /\ pages_fetched = 0
    /\ requests = <<>>
    /\ response = NoResponse
    /\ fetched = Pending
    /\ classifier_ran = FALSE
    /\ ret = "pending"

\* Mutant of window_start: the window never starts after today.
window_start_not_after_today(today, n) ==
    IF n <= 0 THEN today ELSE today - (n - 1)

\* start_date = today_utc - timedelta(days=days - 1)
window_start(today, n) == today - (n - 1)

Init ==
    /\ fn \in EventsFunctions \cup PrsFunctions
    /\ username \in Usernames
    /\ token \in IF fn \in Orchestrations THEN {"None"} ELSE Tokens
    /\ max_pages \in PageBudgets
    /\ days \in IF fn \in LastDaysFunctions THEN Days ELSE {1}
    /\ today_utc \in Todays
    /\ start_date = window_start(today_utc, days)
    /\ end_date = today_utc
    /\ StartOfCall
    /\ cli_idle
    /\ no_record
    /\ one_thread

\* ------------------------------------------------------------ orchestration
\* Each orchestration function, from the value its fetch returned: what it
\* returns, and whether it went on to the date-window loop.
find_todays_commits(user_events) ==
    IF falsy(user_events)
    THEN [ret |-> "False", classifier_ran |-> FALSE]
    ELSE [ret |-> BoolStr(find_todays_push_events(user_events, today_utc)),
          classifier_ran |-> TRUE]

\* Mutant of find_commits_last_days: the window is today alone.
find_commits_last_days_today_only(user_events) ==
    IF falsy(user_events)
    THEN [ret |-> "False", classifier_ran |-> FALSE]
    ELSE [ret |-> BoolStr(find_push_events_in_date_range(user_events, today_utc, today_utc)),
          classifier_ran |-> TRUE]

find_commits_last_days(user_events) ==
    IF falsy(user_events)
    THEN [ret |-> "False", classifier_ran |-> FALSE]
    ELSE [ret |-> BoolStr(find_push_events_in_date_range(user_events, start_date, today_utc)),
          classifier_ran |-> TRUE]

\* find_todays_prs is find_prs_last_days with days=1.
find_prs_last_days(prs) ==
    IF falsy(prs)
    THEN [ret |-> "False", classifier_ran |-> FALSE]
    ELSE [ret |-> BoolStr(pr_in_range_from(prs.val, 1, start_date, today_utc)),
          classifier_ran |-> TRUE]

\* What the called function does with the value its fetcher returns.  An
\* exception raised in the fetcher leaves the orchestration function too.
caller_outcome(result) ==
    IF fn \notin Orchestrations THEN [ret |-> "pending", classifier_ran |-> FALSE]
    ELSE IF result.tag = "raised" THEN [ret |-> "raised", classifier_ran |-> FALSE]
    ELSE IF fn = "find_todays_commits" THEN find_todays_commits(result)
    ELSE IF fn = "find_commits_last_days" THEN find_commits_last_days(result)
    ELSE find_prs_last_days(result)

\* The fetcher returns `result`, and the function that called it finishes.
fetch_returns(result) ==
    LET outcome == caller_outcome(result)
    IN  /\ fetched' = result
        /\ ret' = outcome.ret
        /\ classifier_ran' = outcome.classifier_ran
        /\ pc' = "done"

\* The loop goes round: back to its head, in the fetcher `at`.
still_fetching(at) == pc' = at /\ UNCHANGED <<fetched, ret, classifier_ran>>

\* ------------------------------------------ fetch_github_user_public_events
\* Mutant of events_loop_condition: the first page is fetched whatever the
\* budget (the test is made at the end of the loop).
events_loop_at_least_once(url, n_pages) ==
    url # NoUrl /\ (n_pages = 0 \/ n_pages < max_pages)

\* Mutant of events_loop_condition: the budget is tested with <=.
events_loop_off_by_one(url, n_pages) == url # NoUrl /\ n_pages <= max_pages

\* while next_url and pages_fetched < max_pages
events_loop_condition(url, n_pages) == url # NoUrl /\ n_pages < max_pages

\* Mutant of events_page_error_result: the pages fetched so far are returned.
events_page_error_partial(accumulated) == List(accumulated)

\* if page_events is None: return None (whatever all_events holds by then).
events_page_error_result(accumulated) == None_

\* The call issues no request at all: `if not username: return None`, or the
\* loop is not entered and the empty all_events is returned.
fetch_events_no_request ==
    /\ pc = "fetch_events"
    /\ requests = <<>>
    /\ not_str(username) \/ ~events_loop_condition(next_url, pages_fetched)
    /\ fetch_returns(IF not_str(username) THEN None_ ELSE List(all_events))
    /\ UNCHANGED <<call_args, events_locals, prs_locals, pages_fetched, requests, response>>

\* The loop is entered: requests.get(next_url) is sent, and blocks.
fetch_events_request ==
    /\ pc = "fetch_events"
    /\ ~not_str(username)
    /\ events_loop_condition(next_url, pages_fetched)
    /\ requests' = Append(requests, [url |-> next_url, page |-> 0, q |-> <<>>,
                                     headers |-> headers])
    /\ response' = NoResponse
    /\ pc' = "await_events"
    /\ UNCHANGED <<call_args, events_locals, prs_locals, pages_fetched, fetched,
                   classifier_ran, ret>>

\* The rest of the iteration: the answer `resp` arrives and is dealt with, up
\* to the next GET or to the return of the call.
fetch_events_page(resp) ==
    /\ pc = "await_events"
    /\ response' = resp
    /\ UNCHANGED requests
    /\ LET page == _fetch_single_events_page(resp)
           extended == all_events \o page.page_events.val
       IN  IF page.page_events.tag = "none"
           THEN /\ fetch_returns(events_page_error_result(all_events))
                /\ UNCHANGED <<events_locals, pages_fetched>>
           ELSE /\ all_events' = extended
                /\ pages_fetched' = pages_fetched + 1
                /\ next_url' = page.next_page_url
                /\ IF events_loop_condition(page.next_page_url, pages_fetched + 1)
                   THEN still_fetching("fetch_events")
                   ELSE fetch_returns(List(extended))
    /\ UNCHANGED <<call_args, prs_locals>>

\* ------------------------------------------------- fetch_user_pull_requests
\* Mutant of prs_loop_condition: the page budget is not tested.
prs_loop_no_budget(more, n_pages) == more

\* while has_more_pages and pages_fetched < max_pages
prs_loop_condition(more, n_pages) == more /\ n_pages < max_pages

\* if page_prs is None: return None (whatever all_pull_requests holds by then).
prs_page_error_result(accumulated) == None_

\* The parameters sort and order: "updated" and "desc", by default and as
\* find_prs_last_days passes them.
sort == "updated"
order == "desc"

\* Mutant of next_page_num: the page number is not advanced.
next_page_num_same(n) == n

\* current_page_num_for_api += 1
next_page_num(n) == n + 1

fetch_prs_no_request ==
    /\ pc = "fetch_prs"
    /\ requests = <<>>
    /\ not_str(username) \/ ~prs_loop_condition(has_more_pages, pages_fetched)
    /\ fetch_returns(IF not_str(username) THEN None_ ELSE List(all_pull_requests))
    /\ UNCHANGED <<call_args, events_locals, prs_locals, pages_fetched, requests, response>>

\* The loop is entered: requests.get(search_url, params) is sent, and blocks.
fetch_prs_request ==
    /\ pc = "fetch_prs"
    /\ ~not_str(username)
    /\ prs_loop_condition(has_more_pages, pages_fetched)
    /\ requests' = Append(requests, [url |-> SearchUrl, page |-> current_page_num_for_api,
                                     q |-> <<search_query_type, username, "is:pr">>,
                                     sort |-> sort, order |-> order,
                                     per_page |-> "100", headers |-> headers])
    /\ response' = NoResponse
    /\ pc' = "await_prs"
    /\ UNCHANGED <<call_args, events_locals, prs_locals, pages_fetched, fetched,
                   classifier_ran, ret>>

\* The rest of the iteration: the answer `resp` arrives and is dealt with, up
\* to the next GET or to the end of the call.  A total_count that cannot be
\* compared with 0 raises TypeError, which no function of core.py catches.
fetch_prs_page(resp) ==
    /\ pc = "await_prs"
    /\ response' = resp
    /\ UNCHANGED requests
    /\ LET page == _fetch_single_prs_page(resp)
           extended == all_pull_requests \o page.page_prs.val
           more == IF fetched_all_reported(page.total_count, Len(extended))
                   THEN FALSE ELSE page.has_more
       IN  IF page.page_prs.tag = "none"
           THEN /\ fetch_returns(prs_page_error_result(all_pull_requests))
                /\ UNCHANGED <<prs_locals, pages_fetched>>
           ELSE /\ all_pull_requests' = extended
                /\ pages_fetched' = pages_fetched + 1
                /\ current_page_num_for_api' = next_page_num(current_page_num_for_api)
                /\ total_count' = page.total_count
                /\ IF ~comparable_with_int(page.total_count)
                   THEN /\ has_more_pages' = page.has_more
                        /\ fetch_returns(Raised)
                   ELSE /\ has_more_pages' = more
                        /\ IF prs_loop_condition(more, pages_fetched + 1)
                           THEN still_fetching("fetch_prs")
                           ELSE fetch_returns(List(extended))
    /\ UNCHANGED <<call_args, events_locals>>

Next ==
    \/ fetch_events_no_request /\ alone
    \/ fetch_events_request /\ alone
    \/ \E resp \in EventResponses :
           fetch_events_page(served(resp, Len(requests))) /\ alone
    \/ fetch_prs_no_request /\ alone
    \/ fetch_prs_request /\ alone
    \/ \E resp \in PrResponses :
           fetch_prs_page(served(resp, Len(requests))) /\ alone

Spec == Init /\ [][Next]_vars

\* ------------------------------------------- the classifiers, called directly
\* Events a caller may hand to find_push_events_in_date_range: a push and a
\* watch of day 3, a push of day 2, a push of 23:00-05:00 on day 2 (04:00 UTC
\* on day 3) and a push of 01:00+09:00 on day 3 (16:00 UTC on day 2).
ClassifyEvents ==
    {GitHubEvent(ev_push_today), GitHubEvent(ev_watch_today),
     GitHubEvent([ev_push_today EXCEPT !.id = JStr("e4"),
                                       !.created_at = JTime("iso_z", 58, 0)]),
     GitHubEvent([ev_push_today EXCEPT !.id = JStr("e5"),
                                       !.created_at = JTime("iso_offset", 71, -5)]),
     GitHubEvent([ev_push_today EXCEPT !.id = JStr("e6"),
                                       !.created_at = JTime("iso_offset", 73, 9)])}
ClassifyDates == 1..4

\* A direct call of find_push_events_in_date_range(events, start_date,
\* end_date) or of find_todays_push_events(events, today_utc_date); `fetched`
\* holds the events argument.
InitClassify ==
    /\ fn \in {"find_push_events_in_date_range", "find_todays_push_events"}
    /\ username = "octocat"
    /\ token = "None"
    /\ max_pages = 0
    /\ days = 1
    /\ today_utc \in Todays
    /\ start_date \in ClassifyDates
    /\ end_date \in IF fn = "find_todays_push_events" THEN {start_date} ELSE ClassifyDates
    /\ pc = "call"
    /\ next_url = EventsUrl
    /\ all_events = <<>>
    /\ has_more_pages = TRUE
    /\ current_page_num_for_api = 1
    /\ all_pull_requests = <<>>
    /\ total_count = JAbsent
    /\ pages_fetched = 0
    /\ requests = <<>>
    /\ response = NoResponse
    /\ fetched \in {None_} \cup {List(evs) : evs \in BoundedSeq(ClassifyEvents, MaxLen)}
    /\ classifier_ran = FALSE
    /\ ret = "pending"
    /\ cli_idle
    /\ no_record
    /\ one_thread

call_find_push_events_in_date_range ==
    /\ pc = "call"
    /\ fn = "find_push_events_in_date_range"
    /\ ret' = BoolStr(find_push_events_in_date_range(fetched, start_date, end_date))
    /\ classifier_ran' = ~falsy(fetched)
    /\ pc' = "done"
    /\ UNCHANGED <<call_args, events_locals, prs_locals, pages_fetched, requests,
                   response, fetched>>

call_find_todays_push_events ==
    /\ pc = "call"
    /\ fn = "find_todays_push_events"
    /\ ret' = BoolStr(find_todays_push_events(fetched, start_date))
    /\ classifier_ran' = ~falsy(fetched)
    /\ pc' = "done"
    /\ UNCHANGED <<call_args, events_locals, prs_locals, pages_fetched, requests,
                   response, fetched>>

NextClassify ==
    \/ call_find_push_events_in_date_range /\ alone
    \/ call_find_todays_push_events /\ alone

SpecClassify == InitClassify /\ [][NextClassify]_vars

\* ------------------------------------------------------------------ cli.py
\* One behaviour of SpecCli is one run of main().  Python's None is JNull; a
\* string of digits is JDigits(n), the string int() turns into n.
JDigits(n) == [t |-> "str", s |-> "digits", a |-> n, b |-> 0]

DEFAULT_MAX_EVENT_PAGES == 5
DEFAULT_MAX_PR_PAGES == 2

EXIT_CODE_SUCCESS == 0
EXIT_CODE_NO_ACTIVITY == 1
EXIT_CODE_USER_MISSING == 2
EXIT_CODE_ERROR == 3

\* bool(x) for a string, a number or None.
truthy(x) ==
    \/ x.t = "str" /\ x.s # ""
    \/ x.t = "int" /\ x.a # 0

\* x or y
or_(x, y) == IF truthy(x) THEN x ELSE y

\* int(x) for x a string: its number, or ValueError.
int_ok(x) == x.t = "str" /\ x.s = "digits"
int_(x) == JInt(x.a)

\* table.get(key, default), for the value found under the key (JNull: no key).
get(found, default) == IF found = JNull THEN default ELSE found

\* The configurations load_config() returns: none; the one of
\* test_config_file_values_used (budgets beside the github table); the
\* budgets inside the github table; a budget written as a string.
Table(user, tok, event_pages, pr_pages) ==
    [username |-> user, token |-> tok,
     max_event_pages |-> event_pages, max_pr_pages |-> pr_pages]

Config(github, event_pages, pr_pages) ==
    [github |-> github, max_event_pages |-> event_pages, max_pr_pages |-> pr_pages]

config_empty == Config(Table(JNull, JNull, JNull, JNull), JNull, JNull)
config_of_test ==
    Config(Table(JStr("configuser"), JStr("configtoken"), JNull, JNull), JInt(7), JInt(6))
config_budgets_in_github ==
    Config(Table(JStr("configuser"), JStr("configtoken"), JInt(4), JInt(3)), JNull, JNull)
config_budget_string ==
    Config(Table(JNull, JNull, JStr("7"), JInt(3)), JNull, JNull)

Configs == {config_empty, config_of_test, config_budgets_in_github, config_budget_string}

\* The flags of the command line, which parse_args() returns as they are, and
\* what os.environ holds.
Argvs ==
    [user : {JNull, JStr("cliuser")}, token : {JNull, JStr("clitoken")},
     max_event_pages : {JNull, JInt(3)}, max_pr_pages : {JNull, JInt(1)}]

Environs ==
    [GITHUB_USERNAME : {JNull, JStr(""), JStr("envuser")},
     GITHUB_TOKEN : {JNull, JStr("envtoken")},
     DUCK_MAX_EVENT_PAGES : {JNull, JDigits(8), JStr("many")},
     DUCK_MAX_PR_PAGES : {JNull, JDigits(7)}]

\* core.py is not running on its own: its variables hold the start of a call.
core_idle ==
    /\ fn = "main"
    /\ username = ""
    /\ token = "None"
    /\ max_pages = 0
    /\ days = 1
    /\ today_utc \in Todays
    /\ start_date = today_utc
    /\ end_date = today_utc
    /\ next_url = EventsUrl
    /\ all_events = <<>>
    /\ has_more_pages = TRUE
    /\ current_page_num_for_api = 1
    /\ all_pull_requests = <<>>
    /\ total_count = JAbsent
    /\ pages_fetched = 0
    /\ requests = <<>>
    /\ response = NoResponse
    /\ fetched = Pending
    /\ classifier_ran = FALSE
    /\ ret = "pending"
    /\ one_thread
    /\ no_record

InitCli ==
    /\ core_idle
    /\ pc = "main"
    /\ argv \in Argvs
    /\ args = argv
    /\ environ \in Environs
    /\ config \in Configs
    /\ github_user = JNull
    /\ github_token = JNull
    /\ commits_found_today = "pending"
    /\ prs_found_today = "pending"
    /\ calls = <<>>
    /\ exit_code = <<>>

\* github_config.get("max_event_pages", DEFAULT_MAX_EVENT_PAGES): the budget
\* is looked up in the github table of the configuration.
config_budget(conf, key, default) == get(conf.github[key], default)

\* The budget of main: the flag, else int() of the environment variable,
\* else the configuration, else the default.
budget(flag, env, conf, key, default) ==
    IF flag # JNull THEN flag
    ELSE IF env # JNull THEN int_(env)
    ELSE config_budget(conf, key, default)

\* int(env) raises ValueError: the flag is not given and the variable is set
\* to a string that is not a number.
budget_raises(flag, env) == flag = JNull /\ env # JNull /\ ~int_ok(env)

\* if not github_user
user_missing(user) == ~truthy(user)

\* main(), up to its return or to the call of handle_check.
main ==
    /\ pc = "main"
    /\ LET user == or_(or_(args.user, environ.GITHUB_USERNAME), config.github.username)
           tok == or_(or_(args.token, environ.GITHUB_TOKEN), config.github.token)
       IN  /\ github_user' = user
           /\ github_token' = tok
           /\ IF \/ budget_raises(args.max_event_pages, environ.DUCK_MAX_EVENT_PAGES)
                 \/ budget_raises(args.max_pr_pages, environ.DUCK_MAX_PR_PAGES)
              THEN /\ pc' = "raised"
                   /\ UNCHANGED <<args, exit_code>>
              ELSE /\ args' = [args EXCEPT
                          !.max_event_pages =
                              budget(args.max_event_pages, environ.DUCK_MAX_EVENT_PAGES,
                                     config, "max_event_pages",
                                     JInt(DEFAULT_MAX_EVENT_PAGES)),
                          !.max_pr_pages =
                              budget(args.max_pr_pages, environ.DUCK_MAX_PR_PAGES,
                                     config, "max_pr_pages",
                                     JInt(DEFAULT_MAX_PR_PAGES))]
                   /\ IF user_missing(user)
                      THEN /\ exit_code' = <<EXIT_CODE_USER_MISSING>>
                           /\ pc' = "returned"
                      ELSE /\ exit_code' = exit_code
                           /\ pc' = "find_todays_commits"
    /\ UNCHANGED <<core_vars, argv, environ, config, commits_found_today,
                   prs_found_today, calls>>

\* What find_todays_commits and find_todays_prs can hand back to their
\* caller: a boolean; an exception when the budget is not a number (the loop
\* condition pages_fetched < max_pages), and, for find_todays_prs, when a
\* search answer carries a total_count that is not a number.
find_todays_commits_outcomes(max_event_pages) ==
    IF is_int(max_event_pages) THEN {"True", "False"} ELSE {"raised"}
find_todays_prs_outcomes(max_pr_pages) ==
    IF is_int(max_pr_pages) THEN {"True", "False", "raised"} ELSE {"raised"}

\* The call of a check, as handle_check makes it.
Call(check, max_pages_given) ==
    [check |-> check, username |-> github_user, token |-> github_token,
     max_pages |-> max_pages_given]

\* Mutant of handle_check_result: a true commits check alone decides.
handle_check_result_commits_only(commits, prs) ==
    IF commits = "True" THEN EXIT_CODE_SUCCESS ELSE EXIT_CODE_NO_ACTIVITY

\* if commits_found_today or prs_found_today
handle_check_result(commits, prs) ==
    IF commits = "True" \/ prs = "True" THEN EXIT_CODE_SUCCESS ELSE EXIT_CODE_NO_ACTIVITY

\* Mutant of handle_check_error: the exception is answered as no activity.
handle_check_error_as_no_activity == EXIT_CODE_NO_ACTIVITY

\* except Exception: return EXIT_CODE_ERROR
handle_check_error == EXIT_CODE_ERROR

\* handle_check, up to the return of find_todays_commits.
handle_check_commits(outcome) ==
    /\ pc = "find_todays_commits"
    /\ calls' = Append(calls, Call("find_todays_commits", args.max_event_pages))
    /\ commits_found_today' = outcome
    /\ IF outcome = "raised"
       THEN /\ exit_code' = <<handle_check_error>>
            /\ pc' = "returned"
       ELSE /\ exit_code' = exit_code
            /\ pc' = "find_todays_prs"
    /\ UNCHANGED <<core_vars, argv, args, environ, config, github_user, github_token,
                   prs_found_today>>

\* handle_check, from the call of find_todays_prs to its return.
handle_check_prs(outcome) ==
    /\ pc = "find_todays_prs"
    /\ calls' = Append(calls, Call("find_todays_prs", args.max_pr_pages))
    /\ prs_found_today' = outcome
    /\ exit_code' = IF outcome = "raised"
                    THEN <<handle_check_error>>
                    ELSE <<handle_check_result(commits_found_today, outcome)>>
    /\ pc' = "returned"
    /\ UNCHANGED <<core_vars, argv, args, environ, config, github_user, github_token,
                   commits_found_today>>

NextCli ==
    \/ main
    \/ \E outcome \in find_todays_commits_outcomes(args.max_event_pages) :
           handle_check_commits(outcome)
    \/ \E outcome \in find_todays_prs_outcomes(args.max_pr_pages) :
           handle_check_prs(outcome)

SpecCli == InitCli /\ [][NextCli]_vars

\* ------------------------------------------------- calls on several threads
\* SpecConcurrent: two threads, each making one call of a fetcher.  A call's
\* locals, its connection (requests, response) and its result live in the
\* frame of its thread; core.py has no module-level state but the logger and
\* two constants.  The variables of the call hold the frame of the thread
\* that runs, `suspended` the frame of the other one; a thread can be
\* switched out between any two steps of its call.
Threads == {1, 2}
other(t) == 3 - t

Fetchers == {"fetch_github_user_public_events", "fetch_user_pull_requests"}
ConcurrentUsernames == {"octocat", "hubot"}
ConcurrentBudgets == {0, MaxPages}

\* The items the server delivers to the call of thread t.
ev_push_for(t) == [ev_push_today EXCEPT !.id = IF t = 1 THEN JStr("e1") ELSE JStr("e7")]
pr_for(t) == [pr_updated_today EXCEPT !.id = JInt(100 * t + 1)]

\* The answers to a request of thread t.
ConcurrentEventResponses ==
    [t \in Threads |->
        {Response("http_error", 403, "none", "absent", <<>>, NoUrl, JAbsent)}
        \cup {Response("ok", 200, "list", "absent", its, l, JAbsent) :
                its \in {<<>>, <<ev_push_for(t)>>}, l \in EventLinks}]

ConcurrentPrResponses ==
    [t \in Threads |->
        {Response("http_error", 403, "none", "absent", <<>>, NoUrl, JAbsent)}
        \cup {Response("ok", 200, "mapping", "list", <<pr_for(t)>>, l, JInt(MaxTotal)) :
                l \in PrLinks}
        \cup {Response("ok", 200, "mapping", "list", <<>>, NoUrl, JInt(0))}]

\* The frame of the thread that runs.
this_frame ==
    [fn |-> fn, username |-> username, token |-> token, max_pages |-> max_pages,
     days |-> days, today_utc |-> today_utc, start_date |-> start_date,
     end_date |-> end_date, pc |-> pc, next_url |-> next_url,
     all_events |-> all_events, has_more_pages |-> has_more_pages,
     current_page_num_for_api |-> current_page_num_for_api,
     all_pull_requests |-> all_pull_requests, total_count |-> total_count,
     pages_fetched |-> pages_fetched, requests |-> requests, response |-> response,
     fetched |-> fetched, classifier_ran |-> classifier_ran, ret |-> ret,
     received |-> received]

\* The frame of a call of `fetcher` that has not started.
StartFrame(fetcher, user, pages) ==
    [fn |-> fetcher, username |-> user, token |-> "None", max_pages |-> pages,
     days |-> 1, today_utc |-> 3, start_date |-> 3, end_date |-> 3,
     pc |-> IF fetcher \in EventsFunctions THEN "fetch_events" ELSE "fetch_prs",
     next_url |-> EventsUrl, all_events |-> <<>>, has_more_pages |-> TRUE,
     current_page_num_for_api |-> 1, all_pull_requests |-> <<>>,
     total_count |-> JAbsent, pages_fetched |-> 0, requests |-> <<>>,
     response |-> NoResponse, fetched |-> Pending, classifier_ran |-> FALSE,
     ret |-> "pending", received |-> <<>>]

InitConcurrent ==
    /\ fn \in Fetchers
    /\ username = "octocat"
    /\ token = "None"
    /\ max_pages \in ConcurrentBudgets
    /\ days = 1
    /\ today_utc \in Todays
    /\ start_date = today_utc
    /\ end_date = today_utc
    /\ StartOfCall
    /\ cli_idle
    /\ no_record
    /\ thread = 1
    /\ suspended \in {StartFrame(f, u, p) :
                        f \in Fetchers, u \in ConcurrentUsernames, p \in ConcurrentBudgets}
    /\ received = <<>>
    /\ get_order = <<>>

\* Mutant of own_all_events: all_events is one list shared by the calls.
shared_all_events(frame) == all_events

\* all_events: List[GitHubEvent] = [] is a local of the call: the thread
\* resumes with the list of its own frame.
own_all_events(frame) == frame.all_events

\* The running thread is switched out and the other one resumes its call.
switch ==
    /\ thread' = other(thread)
    /\ suspended' = this_frame
    /\ fn' = suspended.fn
    /\ username' = suspended.username
    /\ token' = suspended.token
    /\ max_pages' = suspended.max_pages
    /\ days' = suspended.days
    /\ today_utc' = suspended.today_utc
    /\ start_date' = suspended.start_date
    /\ end_date' = suspended.end_date
    /\ pc' = suspended.pc
    /\ next_url' = suspended.next_url
    /\ all_events' = own_all_events(suspended)
    /\ has_more_pages' = suspended.has_more_pages
    /\ current_page_num_for_api' = suspended.current_page_num_for_api
    /\ all_pull_requests' = suspended.all_pull_requests
    /\ total_count' = suspended.total_count
    /\ pages_fetched' = suspended.pages_fetched
    /\ requests' = suspended.requests
    /\ response' = suspended.response
    /\ fetched' = suspended.fetched
    /\ classifier_ran' = suspended.classifier_ran
    /\ ret' = suspended.ret
    /\ received' = suspended.received
    /\ UNCHANGED <<cli_vars, get_order, record_vars>>

\* A step of the call of the running thread: its GET and the answer to it are
\* recorded, the other thread's frame is out of its reach.
runs ==
    /\ received' = IF pc \in {"await_events", "await_prs"}
                   THEN Append(received, response') ELSE received
    /\ get_order' = IF Len(requests') > Len(requests)
                    THEN Append(get_order, thread) ELSE get_order
    /\ UNCHANGED <<cli_vars, thread, suspended, record_vars>>

NextConcurrent ==
    \/ fetch_events_no_request /\ runs
    \/ fetch_events_request /\ runs
    \/ \E resp \in ConcurrentEventResponses[thread] :
           fetch_events_page(served(resp, Len(requests))) /\ runs
    \/ fetch_prs_no_request /\ runs
    \/ fetch_prs_request /\ runs
    \/ \E resp \in ConcurrentPrResponses[thread] :
           fetch_prs_page(served(resp, Len(requests))) /\ runs
    \/ switch

SpecConcurrent == InitConcurrent /\ [][NextConcurrent]_vars

\* ------------------------------------------- models.py, a record on its own
\* A JSON object (an actor, a payload, a user) and a JSON list of n objects.
JMap == [t |-> "map", s |-> "", a |-> 0, b |-> 0]
JList(n) == [t |-> "list", s |-> "", a |-> n, b |-> 0]

\* The fields declared with a default, and the default each is declared with:
\* None, but `= []` for assignees and default_factory=list for
\* requested_reviewers.
EventOptionalFields == {"actor", "payload"}
PrOptionalFields == {"user", "body", "closed_at", "merged_at", "assignees",
                     "requested_reviewers", "repository_url"}
declared_default(f) ==
    IF f \in {"assignees", "requested_reviewers"} THEN JList(0) ELSE JNull

\* Mutant of field_value: a field the mapping does not hold is not set.
field_value_unset(item, f) == item[f]

\* The value of an optional field of the record built from `item`: the value
\* the mapping holds, the declared default when it holds none.
field_value(item, f) == IF item[f] = JAbsent THEN declared_default(f) ELSE item[f]

\* A datetime field of the record: the datetime the validator returned.
datetime_value(value) ==
    LET dt == parse_datetime(value) IN JTime("datetime", dt.lt, dt.off)

\* An Optional[datetime] field: parse_datetime_fields returns None for None.
optional_datetime_value(item, f) ==
    IF field_value(item, f) \in {JNull, JAbsent} THEN field_value(item, f)
    ELSE datetime_value(item[f])

\* A bool field of the record: lax mode turns the integers 0 and 1 into bools.
bool_value(value) == JBool(value.a = 1)

\* The fields of GitHubEvent(**item), as BaseModel.model_dump() lists them:
\* every declared field, set from the mapping or not.
GitHubEvent_model_dump(item) ==
    [id |-> item.id, type |-> item.type,
     created_at |-> datetime_value(item.created_at),
     actor |-> field_value(item, "actor"),
     payload |-> field_value(item, "payload")]

\* The fields of PullRequestSimple(**item), likewise.
PullRequestSimple_model_dump(item) ==
    [id |-> item.id, html_url |-> item.html_url, number |-> item.number,
     title |-> item.title, state |-> item.state,
     locked |-> bool_value(item.locked),
     user |-> field_value(item, "user"),
     body |-> field_value(item, "body"),
     created_at |-> datetime_value(item.created_at),
     updated_at |-> datetime_value(item.updated_at),
     closed_at |-> optional_datetime_value(item, "closed_at"),
     merged_at |-> optional_datetime_value(item, "merged_at"),
     assignees |-> field_value(item, "assignees"),
     requested_reviewers |-> field_value(item, "requested_reviewers"),
     repository_url |-> field_value(item, "repository_url")]

\* The timestamps a mapping may hold: with Z, with an offset, naive, and a
\* number (which the validator rejects).
Timestamps ==
    {JTime("iso_z", 82, 0), JTime("iso_offset", 82, 9), JTime("iso_naive", 82, 0),
     JInt(82)}

\* The mappings GitHubEvent is built from: the required fields (type may be
\* missing), and the optional ones present or not.
EventPayloads ==
    {[shape |-> "mapping", id |-> JStr("e1"), type |-> ty, created_at |-> c,
      actor |-> ac, payload |-> pl] :
        ty \in {JStr("PushEvent"), JStr("WatchEvent"), JAbsent}, c \in Timestamps,
        ac \in {JAbsent, JNull, JMap}, pl \in {JAbsent, JMap}}

\* The mappings PullRequestSimple is built from.
PrPayloads ==
    {[shape |-> "mapping", id |-> JInt(101), html_url |-> JStr("url1"),
      number |-> JInt(11), title |-> JStr("t1"), state |-> JStr("open"),
      locked |-> lk, user |-> us, body |-> JAbsent,
      created_at |-> c, updated_at |-> JTime("iso_z", 83, 0),
      closed_at |-> cl, merged_at |-> JAbsent,
      assignees |-> as, requested_reviewers |-> rr, repository_url |-> ru] :
        lk \in {JBool(FALSE), JBool(TRUE), JInt(1), JAbsent}, us \in {JAbsent, JMap},
        c \in Timestamps, cl \in {JAbsent, JNull, JTime("iso_z", 90, 0)},
        as \in {JAbsent, JList(0), JList(1)}, rr \in {JAbsent, JList(1)},
        ru \in {JAbsent, JStr("repo")}}

\* What building a record gives: its fields, or a ValidationError.
Dict(fields) == [tag |-> "dict", val |-> fields]
ValidationError == [tag |-> "ValidationError", val |-> <<>>]

\* A record is built from a mapping, outside any call of core.py.
InitRecords ==
    /\ fn \in {"GitHubEvent", "PullRequestSimple"}
    /\ item_data \in IF fn = "GitHubEvent" THEN EventPayloads ELSE PrPayloads
    /\ dumped = NoItem
    /\ pc = "build"
    /\ username = ""
    /\ token = "None"
    /\ max_pages = 0
    /\ days = 1
    /\ today_utc \in Todays
    /\ start_date = today_utc
    /\ end_date = today_utc
    /\ next_url = EventsUrl
    /\ all_events = <<>>
    /\ has_more_pages = TRUE
    /\ current_page_num_for_api = 1
    /\ all_pull_requests = <<>>
    /\ total_count = JAbsent
    /\ pages_fetched = 0
    /\ requests = <<>>
    /\ response = NoResponse
    /\ fetched = Pending
    /\ classifier_ran = FALSE
    /\ ret = "pending"
    /\ cli_idle
    /\ one_thread

records_only ==
    UNCHANGED <<call_args, events_locals, prs_locals, pages_fetched, requests,
                response, fetched, classifier_ran, ret, cli_vars, thread_vars,
                item_data>>

\* GitHubEvent(**item_data), then its fields.
build_GitHubEvent ==
    /\ pc = "build" /\ fn = "GitHubEvent"
    /\ dumped' = IF GitHubEvent_valid(item_data)
                  THEN Dict(GitHubEvent_model_dump(item_data))
                  ELSE ValidationError
    /\ pc' = "done"
    /\ records_only

\* PullRequestSimple(**item_data), then its fields.
build_PullRequestSimple ==
    /\ pc = "build" /\ fn = "PullRequestSimple"
    /\ dumped' = IF PullRequestSimple_valid(item_data)
                  THEN Dict(PullRequestSimple_model_dump(item_data))
                  ELSE ValidationError
    /\ pc' = "done"
    /\ records_only

NextRecords ==
    \/ build_GitHubEvent
    \/ build_PullRequestSimple

SpecRecords == InitRecords /\ [][NextRecords]_vars

\* ------------------------------------------- checks over no days at all
\* Day counts that leave no day to check.
NonPositiveDays == {-1, 0}

\* One call of find_commits_last_days(username, days=n, max_event_pages=1) or
\* of find_prs_last_days(username, days=n, max_pr_pages=1), n <= 0.
InitNoDays ==
    /\ fn \in LastDaysFunctions
    /\ username = "octocat"
    /\ token = "None"
    /\ max_pages = 1
    /\ days \in NonPositiveDays
    /\ today_utc \in Todays
    /\ start_date = window_start(today_utc, days)
    /\ end_date = today_utc
    /\ StartOfCall
    /\ cli_idle
    /\ no_record
    /\ one_thread

NextNoDays ==
    \/ fetch_events_request /\ alone
    \/ \E resp \in EventResponses :
           fetch_events_page(served(resp, Len(requests))) /\ alone
    \/ fetch_prs_request /\ alone
    \/ \E resp \in PrResponses :
           fetch_prs_page(served(resp, Len(requests))) /\ alone

SpecNoDays == InitNoDays /\ [][NextNoDays]_vars

\* --------------------------------------- search pages of incomplete items
\* The fields of PullRequestSimple declared without a default.
RequiredPrFields ==
    {"id", "html_url", "number", "title", "state", "locked", "created_at", "updated_at"}

\* A search item that holds every required field but f.
pr_lacking(f) == [[pr_updated_today EXCEPT !.id = JInt(103)] EXCEPT ![f] = JAbsent]

\* The items of such a page: complete ones, and ones lacking one field each.
PrItemsLacking ==
    {pr_updated_today, pr_created_yesterday} \cup {pr_lacking(f) : f \in RequiredPrFields}

\* The answers to the request: a good page of such items, with or without a
\* next link, reporting no total or one never reached.
PrResponsesLacking ==
    {Response("ok", 200, "mapping", "list", its, l, tc) :
        its \in BoundedSeq(PrItemsLacking, MaxItems), l \in PrLinks,
        tc \in {JAbsent, JInt(MaxTotal + MaxItems)}}

\* One call of fetch_user_pull_requests(username, token=token, max_pages=1).
InitPrItems ==
    /\ fn = "fetch_user_pull_requests"
    /\ username = "octocat"
    /\ token \in Tokens
    /\ max_pages = 1
    /\ days = 1
    /\ today_utc \in Todays
    /\ start_date = today_utc
    /\ end_date = today_utc
    /\ StartOfCall
    /\ cli_idle
    /\ no_record
    /\ one_thread

NextPrItems ==
    \/ fetch_prs_request /\ alone
    \/ \E resp \in PrResponsesLacking :
           fetch_prs_page(served(resp, Len(requests))) /\ alone

SpecPrItems == InitPrItems /\ [][NextPrItems]_vars

\* ================================================================= claims
\* The UTC calendar day of an instant: astimezone(timezone.utc).date().
utc_date(dt) == (dt.lt - dt.off) \div 24

EventsCall == fn \in EventsFunctions
PrsCall == fn \in PrsFunctions

\* The answer just dealt with is a page the events fetcher / the PR fetcher
\* could parse.
GoodEventsPage == response.kind = "ok" /\ response.body = "list"
GoodPrsPage ==
    response.kind = "ok" /\ response.body = "mapping" /\ response.items_kind = "list"

\* The answer just dealt with is a hard failure: HTTP 4xx/5xx, timeout,
\* connection error, undecodable JSON, or a body of the wrong shape.
HardFailure ==
    /\ response.kind # "none"
    /\ \/ response.kind # "ok"
       \/ EventsCall /\ ~GoodEventsPage
       \/ PrsCall /\ ~GoodPrsPage

\* C1: find_push_events_in_date_range(events, start, end) is true iff some
\* event has type "PushEvent" and the UTC calendar date of its created_at lies
\* in [start, end], whatever offset created_at carries; None and [] give false.
C1_PushInRangeIffUtcDateInRange ==
    (pc = "done" /\ fn = "find_push_events_in_date_range") =>
        /\ (ret = "True") <=>
               \E i \in 1..Len(fetched.val) :
                   /\ fetched.val[i].type = "PushEvent"
                   /\ start_date <= utc_date(fetched.val[i].created_at)
                   /\ utc_date(fetched.val[i].created_at) <= end_date
        /\ falsy(fetched) => ret = "False"

\* C2: over a fetched non-empty PR list, find_prs_last_days(n) is true iff
\* some PR has its created date or its updated date, each on its own, in
\* [today-(n-1), today].
InWindow(d) == today_utc - (days - 1) <= d /\ d <= today_utc

C2_PrInRangeIffCreatedOrUpdated ==
    (pc = "done" /\ fn \in {"find_prs_last_days", "find_todays_prs"}
        /\ fetched.tag = "list" /\ fetched.val # <<>>) =>
        ((ret = "True") <=>
            \E i \in 1..Len(fetched.val) :
                \/ InWindow(date(fetched.val[i].created_at))
                \/ InWindow(date(fetched.val[i].updated_at)))

\* C2's case: every fetched PR was created outside the window, one was
\* updated inside it, and the check returned true.
C2_Witness ==
    /\ pc = "done" /\ fn = "find_prs_last_days"
    /\ fetched.tag = "list" /\ fetched.val # <<>>
    /\ \A i \in 1..Len(fetched.val) : ~InWindow(date(fetched.val[i].created_at))
    /\ \E i \in 1..Len(fetched.val) : InWindow(date(fetched.val[i].updated_at))
    /\ ret = "True"

\* C3: with a page budget p >= 1, a call of fetch_github_user_public_events
\* issues at most p requests, and has returned once the p-th is dealt with,
\* even when every response offers a next url.
C3_EventsAtMostMaxPagesRequests ==
    (EventsCall /\ max_pages >= 1) =>
        /\ Len(requests) <= max_pages
        /\ (Len(requests) = max_pages /\ pc # "await_events") => pc = "done"

\* C3's case: the budget is spent on good pages, the last of which still
\* offers a next url, and the call returned its list.
C3_Witness ==
    /\ EventsCall /\ max_pages = MaxPages /\ Len(requests) = max_pages
    /\ GoodEventsPage /\ response.link # NoUrl
    /\ pc = "done" /\ fetched = List(all_events)

\* C4: with a page budget p >= 1, a call of fetch_user_pull_requests issues
\* at most p requests, and has ended once the p-th is dealt with, even when
\* every page is non-empty, has a next link and reports a total never reached.
C4_PrsAtMostMaxPagesRequests ==
    (PrsCall /\ max_pages >= 1) =>
        /\ Len(requests) <= max_pages
        /\ (Len(requests) = max_pages /\ pc # "await_prs") => pc = "done"

\* C4's case: the budget is spent, the last page is non-empty, has a next
\* link and reports more than was accumulated, and the call returned its list.
C4_Witness ==
    /\ PrsCall /\ max_pages = MaxPages /\ Len(requests) = max_pages
    /\ GoodPrsPage /\ response.link # NoUrl /\ response.items # <<>>
    /\ response.total_count.t = "int"
    /\ response.total_count.a > Len(all_pull_requests)
    /\ pc = "done" /\ fetched = List(all_pull_requests)

\* C5: when the request of any page hard-fails, the fetcher returns None,
\* never the list of the pages before it, and the call is over (no request
\* follows).
C5_HardFailureReturnsNone ==
    HardFailure => (pc = "done" /\ fetched = None_)

\* C5's case: page 1 contributed records and page 2 hard-failed.
C5_Witness ==
    /\ HardFailure /\ Len(requests) = 2
    /\ EventsCall /\ all_events # <<>>
    /\ fetched = None_

\* The outcome an orchestration function returns on a quiet day: the fetch
\* succeeded and nothing fell in the window.
QuietDayOutcome == "False"

\* C6: the outcome of a check whose fetch failed differs from the outcome of
\* a check whose fetch succeeded and found no qualifying activity.
C6_FailedFetchDistinctFromQuietDay ==
    (pc = "done" /\ fn \in Orchestrations /\ HardFailure /\ fetched = None_) =>
        ret # QuietDayOutcome

\* C7: when the fetch returns None or an empty list, each orchestration
\* function returns False, without entering the date-window loop and without
\* raising.
C7_NothingFetchedReturnsFalse ==
    (pc = "done" /\ fn \in Orchestrations /\ (fetched = None_ \/ fetched = List(<<>>))) =>
        (ret = "False" /\ ~classifier_ran)

\* C7's case: the fetch succeeded with pages that held no valid record.
C7_Witness ==
    /\ pc = "done" /\ fn \in Orchestrations
    /\ fetched = List(<<>>) /\ Len(requests) >= 1
    /\ ret = "False"

\* The total_count of the answer just dealt with is a number (missing reads
\* as 0), and that number.
TotalIsNumber == response.total_count.t \in {"int", "absent"}
ReportedTotal == response.total_count.a

\* C8: a good PR page with zero items ends the fetch with the records
\* accumulated so far, whatever its next link, the budget left and its
\* total_count say.
C8_EmptyPrsPageStops ==
    (PrsCall /\ GoodPrsPage /\ TotalIsNumber /\ response.items = <<>>) =>
        (pc = "done" /\ fetched = List(all_pull_requests))

\* C8's case: the empty page has a next link and reports more than was
\* accumulated, and budget is left.
C8_Witness ==
    /\ PrsCall /\ GoodPrsPage /\ TotalIsNumber /\ response.items = <<>>
    /\ response.link # NoUrl
    /\ pages_fetched < max_pages
    /\ ReportedTotal > Len(all_pull_requests)
    /\ pc = "done" /\ fetched = List(all_pull_requests)

\* C9 as stated: after a good PR page, once the records accumulated reach
\* the reported total_count (any number >= 0, a missing one read as 0), the
\* fetch has ended.
C9_ReachedAnyTotalStops ==
    (PrsCall /\ GoodPrsPage /\ TotalIsNumber
        /\ Len(all_pull_requests) >= ReportedTotal) =>
        pc = "done"

\* C9 amended: after a good PR page that reports a total_count > 0, once the
\* records accumulated reach it, the fetch has ended with those records.
C9_ReachedPositiveTotalStops ==
    (PrsCall /\ GoodPrsPage /\ TotalIsNumber /\ ReportedTotal > 0
        /\ Len(all_pull_requests) >= ReportedTotal) =>
        (pc = "done" /\ fetched = List(all_pull_requests))

\* C9's case: the total is reached exactly, on a non-empty page with a next
\* link and budget left.
C9_Witness ==
    /\ PrsCall /\ GoodPrsPage /\ TotalIsNumber /\ ReportedTotal > 0
    /\ Len(all_pull_requests) = ReportedTotal
    /\ response.items # <<>> /\ response.link # NoUrl
    /\ pages_fetched < max_pages
    /\ pc = "done"

\* The records the items of a page validate to, in the order of the page.
ValidEvents(items) ==
    LET valid == SelectSeq(items, GitHubEvent_valid)
    IN  [i \in 1..Len(valid) |-> GitHubEvent(valid[i])]
ValidPrs(items) ==
    LET valid == SelectSeq(items, PullRequestSimple_valid)
    IN  [i \in 1..Len(valid) |-> PullRequestSimple(valid[i])]

\* A good events page is dealt with in this step: it does not fail the fetch,
\* it contributes its valid items in order, and the fetch goes on as the next
\* url and the budget say, whatever items were dropped.
EventsPageStep ==
    (pc = "await_events" /\ GoodEventsPage') =>
        /\ fetched' # None_
        /\ all_events' = all_events \o ValidEvents(response'.items)
        /\ next_url' = response'.link
        /\ (pc' = "fetch_events") <=>
               (response'.link # NoUrl /\ pages_fetched + 1 < max_pages)

\* A good PR page is dealt with in this step: it does not fail the fetch and
\* contributes its valid items in order.
PrsPageStep ==
    (pc = "await_prs" /\ GoodPrsPage' /\ TotalIsNumber') =>
        /\ fetched' # None_
        /\ all_pull_requests' = all_pull_requests \o ValidPrs(response'.items)

\* The PR fetcher goes on to a further page after this step when `n` records
\* count as accumulated.
PrsGoesOnWith(n) ==
    /\ response'.link # NoUrl
    /\ response'.items # <<>>
    /\ pages_fetched + 1 < max_pages
    /\ ~(ReportedTotal' > 0 /\ n >= ReportedTotal')

\* C10 as stated: an invalid item never fails its page, the page contributes
\* exactly its valid items in order, and both fetchers go on as they would
\* had every item of the page parsed.
C10_GoesOnAsIfAllItemsParsed ==
    [][/\ EventsPageStep
       /\ PrsPageStep
       /\ (pc = "await_prs" /\ GoodPrsPage' /\ TotalIsNumber') =>
              ((pc' = "fetch_prs") <=>
                   PrsGoesOnWith(Len(all_pull_requests) + Len(response'.items)))]_vars

\* C10 amended: an invalid item never fails its page, the page contributes
\* exactly its valid items in order; the events fetcher goes on as it would
\* had every item parsed; the PR fetcher counts only the valid records toward
\* total_count, so it goes on whenever it would have had every item parsed,
\* and also when only the dropped items would have reached total_count.
C10_InvalidItemsDroppedOnly ==
    [][/\ EventsPageStep
       /\ PrsPageStep
       /\ (pc = "await_prs" /\ GoodPrsPage' /\ TotalIsNumber') =>
              /\ (pc' = "fetch_prs") <=> PrsGoesOnWith(Len(all_pull_requests'))
              /\ PrsGoesOnWith(Len(all_pull_requests) + Len(response'.items)) =>
                     pc' = "fetch_prs"]_vars

\* C10's case: a page of an invalid item followed by a valid one was dealt
\* with, contributed the valid one, and the events fetcher went on.
C10_Witness ==
    /\ EventsCall /\ GoodEventsPage
    /\ response.items = <<ev_no_type, ev_push_today>>
    /\ all_events = <<GitHubEvent(ev_push_today)>>
    /\ pc = "fetch_events"

\* C11: called with an empty username, each fetcher returns None at once and
\* issues no request, whatever the token and the page budget.
C11_EmptyUsernameNoRequest ==
    (username = "") =>
        /\ requests = <<>>
        /\ pc \notin {"await_events", "await_prs"}
        /\ pc = "done" => fetched = None_

\* C11's case: a fetcher called with an empty username, a token and the
\* largest budget has returned None.
C11_Witness ==
    /\ fn \in {"fetch_github_user_public_events", "fetch_user_pull_requests"}
    /\ username = "" /\ token # "None" /\ max_pages = MaxPages
    /\ pc = "done" /\ fetched = None_ /\ requests = <<>>

\* C12: a PR search answer with HTTP success whose body is not a mapping, or
\* has no "items", or has an "items" that is not a list, fails the whole fetch
\* (None, not an empty list); one whose "items" is a list, the empty list
\* included, does not.
HttpSuccess == response.kind = "ok"

C12_MalformedPrsPageIsHardFailure ==
    (PrsCall /\ HttpSuccess) =>
        /\ ~GoodPrsPage => (pc = "done" /\ fetched = None_)
        /\ (GoodPrsPage /\ TotalIsNumber) => fetched # None_
        /\ fetched = List(<<>>) => GoodPrsPage

\* C12's case: page 1 contributed records, page 2 is a mapping whose "items"
\* is not a list, and the fetch returned None.
C12_Witness ==
    /\ PrsCall /\ HttpSuccess /\ Len(requests) = 2
    /\ response.body = "mapping" /\ response.items_kind = "other"
    /\ all_pull_requests # <<>>
    /\ pc = "done" /\ fetched = None_

\* C13: when page 1 of the search answers {"items": [], "total_count": 0},
\* fetch_user_pull_requests returns the empty list (not None) after exactly
\* that one request, and the PRs-today check returns False.
EmptySearchOnPageOne ==
    /\ PrsCall /\ Len(requests) = 1 /\ GoodPrsPage
    /\ response.items = <<>> /\ response.total_count = JInt(0)

C13_EmptySearchIsSuccess ==
    EmptySearchOnPageOne =>
        /\ pc = "done"
        /\ fetched = List(<<>>)
        /\ fn = "find_todays_prs" => ret = "False"

\* C13's case: the PRs-today check, with budget left after the empty page.
C13_Witness ==
    /\ EmptySearchOnPageOne /\ fn = "find_todays_prs"
    /\ max_pages = MaxPages /\ response.link = NoUrl
    /\ fetched = List(<<>>) /\ ret = "False"

\* C14: when the events fetch succeeds with a non-empty list,
\* find_commits_last_days(username, n) is true iff some fetched event is a
\* PushEvent dated in [today-(n-1), today]; one page holding one PushEvent
\* created now makes the n = 1 check true.
C14_CommitsLastDaysIsPushInWindow ==
    (pc = "done" /\ fn = "find_commits_last_days"
        /\ fetched.tag = "list" /\ fetched.val # <<>>) =>
        /\ (ret = "True") <=>
               \E i \in 1..Len(fetched.val) :
                   /\ fetched.val[i].type = "PushEvent"
                   /\ InWindow(date(fetched.val[i].created_at))
        /\ (days = 1 /\ fetched.val = <<GitHubEvent(ev_push_today)>>) => ret = "True"

\* C14's case: the only fetched event is a push of yesterday, and the
\* two-day check returned true.
C14_Witness ==
    /\ pc = "done" /\ fn = "find_commits_last_days" /\ days = 2
    /\ fetched = List(<<GitHubEvent(ev_push_yesterday)>>)
    /\ ret = "True"

\* C15: whatever the server answers, no exception leaves the core: the
\* fetchers return a list or None and the orchestration functions a boolean.
C15_NoResponseMakesCoreRaise ==
    /\ fetched # Raised
    /\ ret # "raised"

\* Both checks were called, each once, the commits-today check first.
BothChecksCalledOnce ==
    /\ Len(calls) = 2
    /\ calls[1].check = "find_todays_commits"
    /\ calls[2].check = "find_todays_prs"

\* C16: handle_check calls the commits-today check and then the PRs-today
\* check, each exactly once, whatever the first returned (true or false);
\* when both have returned, the exit code is 0 iff one of them returned true,
\* and 1 otherwise.
C16_BothChecksCalledExitIsOr ==
    /\ (pc = "returned" /\ commits_found_today \in {"True", "False"}) =>
            BothChecksCalledOnce
    /\ (pc = "returned" /\ commits_found_today \in {"True", "False"}
            /\ prs_found_today \in {"True", "False"}) =>
            exit_code = <<IF commits_found_today = "True" \/ prs_found_today = "True"
                          THEN EXIT_CODE_SUCCESS ELSE EXIT_CODE_NO_ACTIVITY>>

\* C16's case: the commits-today check returned true, the PRs-today check was
\* still called and returned false, and the exit code is 0.
C16_Witness ==
    /\ pc = "returned" /\ BothChecksCalledOnce
    /\ commits_found_today = "True" /\ prs_found_today = "False"
    /\ exit_code = <<EXIT_CODE_SUCCESS>>

\* C17: when a check raises inside handle_check, the exit code is 3; when it
\* is the commits-today check that raised, the PRs-today check is never called.
C17_RaisingCheckExitsWithError ==
    /\ (commits_found_today = "raised" \/ prs_found_today = "raised") =>
            (pc = "returned" /\ exit_code = <<EXIT_CODE_ERROR>>)
    /\ commits_found_today = "raised" =>
            (Len(calls) = 1 /\ prs_found_today = "pending")

\* C17's case: the commits-today check raised.
C17_Witness ==
    /\ commits_found_today = "raised"
    /\ calls # <<>> /\ calls[1].check = "find_todays_commits"
    /\ exit_code = <<EXIT_CODE_ERROR>>

\* No username comes from --user, GITHUB_USERNAME or the configuration file.
NoUsernameSupplied ==
    /\ ~truthy(argv.user)
    /\ ~truthy(environ.GITHUB_USERNAME)
    /\ ~truthy(config.github.username)

\* C18: when no username is supplied, main returns exit code 2 and calls
\* neither check.
C18_NoUsernameExitsWithUserMissing ==
    (NoUsernameSupplied /\ pc # "main") =>
        /\ pc = "returned"
        /\ exit_code = <<EXIT_CODE_USER_MISSING>>
        /\ calls = <<>>

\* Neither a flag nor an environment variable sets a page budget.
NoBudgetFromFlagOrEnv ==
    /\ argv.max_event_pages = JNull /\ argv.max_pr_pages = JNull
    /\ environ.DUCK_MAX_EVENT_PAGES = JNull /\ environ.DUCK_MAX_PR_PAGES = JNull

\* C19: with the configuration {"github": {username, token},
\* "max_event_pages": 7, "max_pr_pages": 6} and no budget from a flag or the
\* environment, the commits-today check is called with max_event_pages=7 and
\* the PRs-today check with max_pr_pages=6.
C19_ConfigBudgetsPassedToChecks ==
    (config = config_of_test /\ NoBudgetFromFlagOrEnv) =>
        \A i \in 1..Len(calls) :
            calls[i].max_pages = IF calls[i].check = "find_todays_commits"
                                 THEN JInt(7) ELSE JInt(6)

\* What the events fetcher returns when it runs alone and gets `answers`,
\* from the loop state (url, n_pages, acc); Pending when the answers do not
\* take the call to its end.
RECURSIVE events_alone(_, _, _, _)
events_alone(answers, url, n_pages, acc) ==
    IF ~(url # NoUrl /\ n_pages < max_pages) THEN List(acc)
    ELSE IF n_pages >= Len(answers) THEN Pending
    ELSE LET page == _fetch_single_events_page(answers[n_pages + 1])
         IN  IF page.page_events.tag = "none" THEN None_
             ELSE events_alone(answers, page.next_page_url, n_pages + 1,
                               acc \o page.page_events.val)

\* The same for the PR fetcher.
RECURSIVE prs_alone(_, _, _, _)
prs_alone(answers, more, n_pages, acc) ==
    IF ~(more /\ n_pages < max_pages) THEN List(acc)
    ELSE IF n_pages >= Len(answers) THEN Pending
    ELSE LET page == _fetch_single_prs_page(answers[n_pages + 1])
             extended == acc \o page.page_prs.val
         IN  IF page.page_prs.tag = "none" THEN None_
             ELSE IF page.total_count.t # "int" THEN Raised
             ELSE prs_alone(answers,
                            page.has_more /\ ~(page.total_count.a > 0
                                               /\ Len(extended) >= page.total_count.a),
                            n_pages + 1, extended)

\* What the running call returns when it is the only call and gets the
\* answers it has received.
result_alone ==
    IF username = "" THEN None_
    ELSE IF fn = "fetch_github_user_public_events"
         THEN events_alone(received, EventsUrl, 0, <<>>)
         ELSE prs_alone(received, TRUE, 0, <<>>)

\* The ids of the records the server delivered to thread t.
DeliveredTo(t) ==
    IF fn = "fetch_github_user_public_events"
    THEN {ev_push_for(t).id.s} ELSE {pr_for(t).id.a}

\* C20: with the page requests of two fetch calls interleaved in any order,
\* each call returns exactly what it returns alone against the answers it
\* received, and its result holds no record delivered to the other call.
C20_ConcurrentCallsDoNotInterfere ==
    /\ fetched = IF pc = "done" THEN result_alone ELSE Pending
    /\ fetched.tag = "list" =>
           \A i \in 1..Len(fetched.val) : fetched.val[i].id \in DeliveredTo(thread)

\* C20's case: the GETs of the two calls alternated, both calls spent their
\* budget on good pages and both have returned a list of records.
C20_Witness ==
    /\ Len(get_order) >= 4
    /\ \A i \in 1..(Len(get_order) - 1) : get_order[i] # get_order[i + 1]
    /\ pc = "done" /\ fetched.tag = "list" /\ Len(fetched.val) >= 2
    /\ suspended.pc = "done" /\ suspended.fetched.tag = "list"
    /\ Len(suspended.fetched.val) >= 2

\* The item lacks at least one of the required fields.
LacksRequiredField(item) == \E f \in RequiredPrFields : item[f] = JAbsent

\* The ids of the items of a page that lack no required field, in order.
RECURSIVE CompleteItemIds(_)
CompleteItemIds(items) ==
    IF items = <<>> THEN <<>>
    ELSE IF LacksRequiredField(Head(items)) THEN CompleteItemIds(Tail(items))
    ELSE <<Head(items).id.a>> \o CompleteItemIds(Tail(items))

\* The ids of the records of a list, in order.
RecordIds(records) == [i \in 1..Len(records) |-> records[i].id]

C22_FixtureItemReturnedAsOneRecord ==
    (fn = "fetch_user_pull_requests" /\ pc = "done" /\ Len(requests) = 1
        /\ GoodPrsPage /\ response.items = <<pr_no_locked>>
        /\ response.total_count = JInt(1) /\ response.link = NoUrl) =>
        /\ fetched.tag = "list"
        /\ Len(fetched.val) = 1
        /\ fetched.val[1].id = pr_no_locked.id.a

\* The mapping a record was built from holds the required fields only.
OptionalFieldsOfRecord == IF fn = "GitHubEvent" THEN EventOptionalFields ELSE PrOptionalFields
MinimalPayload == \A f \in OptionalFieldsOfRecord : item_data[f] = JAbsent
MinimalRecordBuilt ==
    /\ pc = "done" /\ fn \in {"GitHubEvent", "PullRequestSimple"}
    /\ dumped.tag = "dict" /\ MinimalPayload

\* The time and the offset a timestamp string shows (UTC for Z and for none).
ShownDatetime(value) ==
    JTime("datetime", value.a, IF value.s = "iso_offset" THEN value.b ELSE 0)

\* The required fields other than locked come back as the mapping held them,
\* a timestamp as the time and offset it showed.
RequiredFieldsReproduced ==
    /\ dumped.val.id = item_data.id
    /\ dumped.val.created_at = ShownDatetime(item_data.created_at)
    /\ fn = "GitHubEvent" => dumped.val.type = item_data.type
    /\ fn = "PullRequestSimple" =>
           /\ dumped.val.html_url = item_data.html_url
           /\ dumped.val.number = item_data.number
           /\ dumped.val.title = item_data.title
           /\ dumped.val.state = item_data.state
           /\ dumped.val.updated_at = ShownDatetime(item_data.updated_at)

C24_PagesNumberedInOrderSameQuery ==
    PrsCall =>
        \A i \in 1..Len(requests) :
            /\ requests[i].page = i
            /\ requests[i].q = <<search_query_type, username, "is:pr">>
            /\ requests[i].sort = requests[1].sort
            /\ requests[i].order = requests[1].order
            /\ requests[i].per_page = requests[1].per_page

\* C24's case: the call issued its second request, for page 2.
C24_Witness ==
    /\ PrsCall /\ Len(requests) = MaxPages /\ MaxPages >= 2
    /\ requests[MaxPages].page = MaxPages
    /\ requests[MaxPages].q = <<search_query_type, "octocat", "is:pr">>

\* C25: in one call of fetch_github_user_public_events the first request
\* goes to the canonical public-events url with per_page=100, every later
\* request goes to exactly the next url of the response just before it, and
\* after a successful response without a next url the call issues no further
\* request and returns the accumulated records as success.
C25_EventsFollowNextUrl ==
    /\ [](EventsCall =>
            /\ requests # <<>> => requests[1].url = EventsUrl
            /\ (GoodEventsPage /\ response.link = NoUrl) =>
                   (pc = "done" /\ fetched = List(all_events)))
    /\ [][(EventsCall /\ requests # <<>> /\ Len(requests') = Len(requests) + 1) =>
              /\ response.link # NoUrl
              /\ requests'[Len(requests')].url = response.link]_vars

\* C25's case: the second request went to the next url of the first
\* response, the second response had no next url, and the call returned the
\* records of both pages.
C25_Witness ==
    /\ EventsCall /\ Len(requests) = 2
    /\ requests[2].url # requests[1].url /\ requests[2].url # NoUrl
    /\ GoodEventsPage /\ response.link = NoUrl
    /\ pc = "done" /\ fetched = List(all_events) /\ Len(all_events) >= 2

\* C26: after a successful PR search page without a next link,
\* fetch_user_pull_requests issues no further request and returns the
\* accumulated records as success, even when the page was full, the page
\* budget is not spent and the reported total_count exceeds the number of
\* records accumulated.
C26_NoNextLinkEndsPrFetch ==
    (PrsCall /\ GoodPrsPage /\ TotalIsNumber /\ response.link = NoUrl) =>
        (pc = "done" /\ fetched = List(all_pull_requests))

\* C26's case: a full page of valid items without a next link, budget left
\* and a total_count above what was accumulated; the call returned its list.
C26_Witness ==
    /\ PrsCall /\ GoodPrsPage /\ response.link = NoUrl
    /\ Len(response.items) = MaxItems
    /\ Len(all_pull_requests) = MaxItems
    /\ Len(requests) < max_pages
    /\ response.total_count.t = "int"
    /\ response.total_count.a > Len(all_pull_requests)
    /\ pc = "done" /\ fetched = List(all_pull_requests)

\* C27: the PR fetcher judges "zero items" on the raw items of the page and
\* counts only the validated records toward total_count: after a good page
\* it requests the next page exactly when the page has a next link, its raw
\* items list is not empty, budget remains and the records that validated so
\* far do not reach a positive total_count.  So a page of items that all
\* fail validation does not end the fetch, and a dropped item never counts.
C27_RawItemsDecideValidatedCount ==
    [][(pc = "await_prs" /\ GoodPrsPage' /\ TotalIsNumber') =>
          LET counted == Len(all_pull_requests) + Len(ValidPrs(response'.items))
          IN  /\ Len(all_pull_requests') = counted
              /\ (pc' = "fetch_prs") <=>
                     /\ response'.link # NoUrl
                     /\ response'.items # <<>>
                     /\ pages_fetched + 1 < max_pages
                     /\ ~(ReportedTotal' > 0 /\ counted >= ReportedTotal')]_vars

\* C27's case: the first page held one item, which failed validation, had a
\* next link and reported total_count 1; nothing was accumulated and the
\* fetcher went on to request page 2.
C27_Witness ==
    /\ PrsCall /\ GoodPrsPage /\ response.link # NoUrl
    /\ response.items = <<pr_no_locked>> /\ response.total_count = JInt(1)
    /\ all_pull_requests = <<>> /\ pages_fetched = 1
    /\ pc = "fetch_prs"

\* A good events page without items that carries a next url has just been
\* dealt with, and fewer than max_pages pages have been fetched.
EmptyEventsPageWithNext ==
    /\ EventsCall /\ GoodEventsPage
    /\ response.items = <<>> /\ response.link # NoUrl
    /\ pages_fetched < max_pages

\* C28: the events fetcher does not take an empty page for the end of the
\* data: after a successful events page with zero items that carries a next
\* url, and with fewer than max_pages pages fetched, the call has not
\* returned, and its next step is the request of that url.
C28_EmptyEventsPageDoesNotStop ==
    /\ [](EmptyEventsPageWithNext =>
            (pc = "fetch_events" /\ fetched = Pending /\ next_url = response.link))
    /\ [][EmptyEventsPageWithNext =>
              /\ Len(requests') = Len(requests) + 1
              /\ requests'[Len(requests')].url = response.link]_vars

\* C28's case: the first page was empty and had a next url, the budget is 2
\* or more, and the fetcher is about to request that url.
C28_Witness ==
    /\ EmptyEventsPageWithNext /\ pages_fetched = 1 /\ all_events = <<>>
    /\ pc = "fetch_events" /\ next_url = response.link

\* C29: with a non-empty username and a page budget max_pages <= 0, both
\* fetchers issue no request and return the empty list, a success and not
\* None, so the orchestration functions return False without any request.
C29_NoBudgetNoRequestEmptyList ==
    (username # "" /\ max_pages <= 0 /\ (EventsCall \/ PrsCall)) =>
        /\ requests = <<>>
        /\ pc \in {"fetch_events", "fetch_prs", "done"}
        /\ pc = "done" =>
               /\ fetched = List(<<>>)
               /\ fn \in Orchestrations => (ret = "False" /\ ~classifier_ran)

\* C29's case: find_todays_commits was called with a negative budget and
\* returned False on the empty list, with no request issued.
C29_Witness ==
    /\ fn = "find_todays_commits" /\ username = "octocat" /\ max_pages < 0
    /\ pc = "done" /\ requests = <<>>
    /\ fetched = List(<<>>) /\ ret = "False"

\* C30: for a day count n <= 0 the window [today-(n-1), today] is empty, its
\* start lying after today, so find_commits_last_days and find_prs_last_days
\* return False for every fetched list, even one holding a PushEvent or a PR
\* dated today, and they still perform the fetch.
C30_NoDaysNothingFound ==
    (fn \in LastDaysFunctions /\ days <= 0) =>
        /\ start_date > today_utc
        /\ pc = "done" =>
               /\ requests # <<>>
               /\ fetched.tag = "list" => ret = "False"

\* C30's case: find_commits_last_days(days <= 0) fetched a push event dated
\* today, went through the list and returned False.
C30_Witness ==
    /\ fn = "find_commits_last_days" /\ days <= 0 /\ pc = "done"
    /\ requests # <<>>
    /\ fetched = List(<<GitHubEvent(ev_push_today)>>)
    /\ date(fetched.val[1].created_at) = today_utc
    /\ classifier_ran /\ ret = "False"

====
